---- MODULE Spec2Model ----
(***************************************************************************)
(* Model of src/serials.js: the daily serial allocator getDailySerial.     *)
(* Several server processes share the directory SERIALS_DIR.  Inside one   *)
(* process a call runs to completion (the function is synchronous), so a   *)
(* process has at most one call in flight; calls of different processes    *)
(* interleave at the file-system calls (existsSync, readFileSync, and the  *)
(* open-with-truncate and the data write inside writeFileSync).            *)
(*                                                                         *)
(* Strings are sequences of one-character strings.  The six Arabic letters *)
(* of FIXED_PREFIX are written by their names.  JavaScript numbers are     *)
(* records: a finite decimal (sign, integer part, fraction digits),        *)
(* an infinity, or NaN.                                                    *)
(*                                                                         *)
(* The HTTP routes follow the allocator: POST /quotations                  *)
(* (src/routes/quotations.js), the custody sheet routes behind             *)
(* checkPurchaseManagementPermission (src/routes/instantExpenses.js) and   *)
(* POST /webpush/subscribe (src/unnamed/part_000).  Each has its own       *)
(* next-state relation and specification over the same variables.          *)
(***************************************************************************)
EXTENDS Integers, Sequences, FiniteSets, Bags, TLC

(* ---------------------------- bounds ----------------------------------- *)
NumProcs == 2
MaxCalls == 3
MaxQuotations == 1
MaxItems == 1
MaxInFlight == 2
MaxSheets == 2
MaxSubs == 3

Procs == 1..NumProcs

(* ------------------------- strings and numbers ------------------------- *)
Digits == <<"0", "1", "2", "3", "4", "5", "6", "7", "8", "9">>

DigitChars == {Digits[i] : i \in 1..10}

DigitVal(c) == (CHOOSE i \in 1..10 : Digits[i] = c) - 1

WhiteSpace == {" ", "\n"}

IsDigits(s) == \A i \in 1..Len(s) : s[i] \in DigitChars

RECURSIVE DigitsToNat(_)
DigitsToNat(s) ==
  IF s = <<>> THEN 0
  ELSE 10 * DigitsToNat(SubSeq(s, 1, Len(s) - 1)) + DigitVal(s[Len(s)])

RECURSIVE NatToDigits(_)
NatToDigits(n) ==
  IF n < 10 THEN <<Digits[n + 1]>>
  ELSE NatToDigits(n \div 10) \o <<Digits[(n % 10) + 1]>>

RECURSIVE StripTrailingZeros(_)
StripTrailingZeros(s) ==
  IF s # <<>> /\ s[Len(s)] = "0" THEN StripTrailingZeros(SubSeq(s, 1, Len(s) - 1))
  ELSE s

(* JavaScript number values *)
Fin(neg, int, frac) == [k |-> "fin", neg |-> neg, int |-> int, frac |-> frac]
Nat2Num(n) == Fin(FALSE, n, <<>>)
Infinity(neg) == [k |-> "inf", neg |-> neg, int |-> 0, frac |-> <<>>]
NaN == [k |-> "nan", neg |-> FALSE, int |-> 0, frac |-> <<>>]

InfinityStr == <<"I", "n", "f", "i", "n", "i", "t", "y">>

(* String.prototype.trim *)
RECURSIVE trim(_)
trim(s) ==
  IF s = <<>> THEN s
  ELSE IF s[1] \in WhiteSpace THEN trim(Tail(s))
  ELSE IF s[Len(s)] \in WhiteSpace THEN trim(SubSeq(s, 1, Len(s) - 1))
  ELSE s

(* StrDecimalLiteral without sign: digits [. digits], at least one digit.  *)
(* (Exponents and 0x/0b/0o literals are outside the alphabet modelled.)    *)
UnsignedDecimal(neg, s) ==
  LET dots == {i \in 1..Len(s) : s[i] = "."}
  IN  IF dots = {}
      THEN IF s # <<>> /\ IsDigits(s) THEN Fin(neg, DigitsToNat(s), <<>>) ELSE NaN
      ELSE LET d == CHOOSE i \in dots : TRUE
               ip == SubSeq(s, 1, d - 1)
               fp == SubSeq(s, d + 1, Len(s))
           IN  IF Cardinality(dots) = 1 /\ IsDigits(ip) /\ IsDigits(fp) /\ Len(s) > 1
               THEN Fin(neg, DigitsToNat(ip), StripTrailingZeros(fp))
               ELSE NaN

(* Number(raw): the ToNumber conversion applied to a string *)
Number(raw) ==
  LET t == trim(raw)
      signed == t # <<>> /\ t[1] \in {"+", "-"}
      neg == t # <<>> /\ t[1] = "-"
      body == IF signed THEN Tail(t) ELSE t
  IN  IF t = <<>> THEN Nat2Num(0)
      ELSE IF body = InfinityStr THEN Infinity(neg)
      ELSE UnsignedDecimal(neg, body)

isNaN(n) == n.k = "nan"

(* n >= 0 on numbers (false for NaN, true for -0) *)
GeZero(n) ==
  \/ n.k = "inf" /\ ~n.neg
  \/ n.k = "fin" /\ (~n.neg \/ (n.int = 0 /\ n.frac = <<>>))

(* last + 1, for a last that passed the n >= 0 test *)
PlusOne(n) ==
  IF n.k = "fin" THEN Fin(FALSE, n.int + 1, n.frac) ELSE n

(* String(n), for n >= 0 *)
String(n) ==
  IF n.k = "inf" THEN InfinityStr
  ELSE IF n.k = "nan" THEN <<"N", "a", "N">>
  ELSE NatToDigits(n.int) \o (IF n.frac = <<>> THEN <<>> ELSE <<".">> \o n.frac)

(* String.prototype.padStart(width, '0') *)
RECURSIVE padStart(_, _)
padStart(s, width) ==
  IF Len(s) >= width THEN s ELSE padStart(<<"0">> \o s, width)

(* ------------------------------ serials.js ----------------------------- *)
FIXED_PREFIX == <<"alif", "lam", "qaf", "sad", "ya", "mim">>

(* The local calendar dates the clock passes through, as Date objects      *)
(* (getFullYear, getMonth 0-based, getDate).                               *)
Dates == << [year |-> 2024, month |-> 2, date |-> 7],
            [year |-> 2024, month |-> 2, date |-> 8] >>

formatDate8(d) ==
  LET yyyy == NatToDigits(d.year)
      mm == padStart(NatToDigits(d.month + 1), 2)
      dd == padStart(NatToDigits(d.date), 2)
  IN  yyyy \o mm \o dd

(* A single counter file shared by all dates. *)
getSerialFilePathOneFile(d8) == formatDate8(Dates[1])

(* getSerialFilePath: one file per date8 inside SERIALS_DIR; a file is     *)
(* identified by its date8.                                                *)
getSerialFilePath(d8) == d8

DateKeys == {formatDate8(Dates[i]) : i \in 1..Len(Dates)}

FilePaths == {getSerialFilePath(k) : k \in DateKeys}

NoFile == [exists |-> FALSE, data |-> <<>>]
File(data) == [exists |-> TRUE, data |-> data]

(* Lines 28-35 on a successful read: the value `last` gets from a file.    *)
readLast(f) ==
  IF ~f.exists THEN Nat2Num(0)
  ELSE LET raw == trim(f.data)
           n == Number(raw)
       IN  IF ~isNaN(n) /\ GeZero(n) THEN n ELSE Nat2Num(0)

(* Lines 36-39: the string the call returns for a given `last`.            *)
serialOf(d8, lastv) ==
  LET next == PlusOne(lastv)
      padded == padStart(String(next), 3)
  IN  FIXED_PREFIX \o d8 \o padded

(* Contents a serial file may have been left with before the server runs.  *)
SeedValues ==
  { <<>>,
    <<"a", "b", "c">>,
    <<"-", "1">>,
    <<"1", ".", "5">>,
    InfinityStr,
    <<"9", "9", "9", "\n">> }

(* JavaScript values of request fields: undefined, null, a string, a      *)
(* number.                                                                 *)
Undefined == [t |-> "undefined", s |-> <<>>, n |-> Nat2Num(0)]
Null == [t |-> "null", s |-> <<>>, n |-> Nat2Num(0)]
Str(s) == [t |-> "string", s |-> s, n |-> Nat2Num(0)]
Num(n) == [t |-> "number", s |-> <<>>, n |-> n]

(* !v *)
Falsy(v) ==
  \/ v.t \in {"undefined", "null"}
  \/ v.t = "string" /\ v.s = <<>>
  \/ v.t = "number" /\ (isNaN(v.n) \/ (v.n.k = "fin" /\ v.n.int = 0 /\ v.n.frac = <<>>))

(* String(v) *)
ToStr(v) ==
  IF v.t = "string" THEN v.s
  ELSE IF v.t = "number" THEN (IF v.n.neg THEN <<"-">> ELSE <<>>) \o String(v.n)
  ELSE IF v.t = "null" THEN <<"n", "u", "l", "l">>
  ELSE <<"u", "n", "d", "e", "f", "i", "n", "e", "d">>

NoResponse == [status |-> 0, id |-> 0, quote_number |-> <<>>]

(* No request of the /instant-expenses routes has arrived yet. *)
NoRequest ==
  [route |-> "none", known |-> FALSE, hdr |-> Undefined, role |-> Undefined,
   emp |-> Undefined, reached |-> FALSE, touched |-> FALSE, status |-> 0, rows |-> <<>>]


VARIABLES
  dirExists,   \* SERIALS_DIR exists
  files,       \* file path -> [exists, data]
  today,       \* index into Dates of the current local date
  pc,          \* per process: position inside getDailySerial, or "idle"
  date8,       \* per process: local const date8
  last,        \* per process: local let last
  calls,       \* number of calls started so far
  hist,        \* the serials returned so far, in order of return
  outcome,     \* how the most recent call (or process) ended
  overlapped,  \* some call started while another was in flight
  restarted,   \* a process restarted, with no call in flight, since the last return
  changed,     \* per process: the call in flight has changed a stored counter
  readErr,     \* per process: readFileSync threw in the call in flight
  quotations,  \* table quotations, in order of insertion (id = position)
  quotation_items, \* table quotation_items, in order of insertion
  qres,        \* the last response of POST /quotations
  sheets,      \* table instant_expense_sheets, in order of insertion
  pending,     \* bag of the POST /instant-expenses/sheets handlers in flight:
               \* the await each is at, and its locals
  xres,        \* the last request of the /instant-expenses routes and its response
  tableExists, \* table web_push_subscriptions exists
  uniq,        \* index uniq_user_endpoint exists
  subs,        \* table web_push_subscriptions, in order of insertion
  wpending,    \* bag of the POST /webpush/subscribe handlers in flight:
               \* the await each is at, and its locals
  wres         \* status of the last response of POST /webpush/subscribe

serials == <<dirExists, files, today, pc, date8, last, calls, hist, outcome,
             overlapped, restarted, changed, readErr>>

(* the state of the HTTP routes *)
quotes == <<quotations, quotation_items, qres>>

expenses == <<sheets, pending, xres>>

push == <<tableExists, uniq, subs, wpending, wres>>

web == <<quotes, expenses, push>>

vars == <<serials, web>>

locals == <<date8, last, changed, readErr>>

(* What the caller of p's call receives at line 39. *)
Returned(p) ==
  [date8 |-> date8[p], n |-> PlusOne(last[p]), serial |-> serialOf(date8[p], last[p]),
   readErr |-> readErr[p], afterRestart |-> restarted]

Outcome(p, kind) == [kind |-> kind, phase |-> pc[p], changed |-> changed[p]]

Quiet == \A p \in Procs : pc[p] = "idle"

(* Processes keep nothing between calls, so an idle process is only a slot *)
(* for the next call: the lowest-numbered idle one takes it.               *)
FirstIdle(p) == pc[p] = "idle" /\ \A q \in Procs : q < p => pc[q] # "idle"

CounterChange(f, g) == \E k \in FilePaths : readLast(f[k]) # readLast(g[k])

Reset(p) ==
  /\ pc' = [pc EXCEPT ![p] = "idle"]
  /\ date8' = [date8 EXCEPT ![p] = <<>>]
  /\ last' = [last EXCEPT ![p] = Nat2Num(0)]
  /\ changed' = [changed EXCEPT ![p] = FALSE]
  /\ readErr' = [readErr EXCEPT ![p] = FALSE]

TypeInit ==
  /\ today = 1
  /\ pc = [p \in Procs |-> "idle"]
  /\ date8 = [p \in Procs |-> <<>>]
  /\ last = [p \in Procs |-> Nat2Num(0)]
  /\ calls = 0
  /\ hist = <<>>
  /\ outcome = [kind |-> "none", phase |-> "idle", changed |-> FALSE]
  /\ overlapped = FALSE
  /\ restarted = FALSE
  /\ changed = [p \in Procs |-> FALSE]
  /\ readErr = [p \in Procs |-> FALSE]
  /\ quotations = <<>>
  /\ quotation_items = <<>>
  /\ qres = NoResponse
  /\ sheets = <<>>
  /\ pending = EmptyBag
  /\ xres = NoRequest
  /\ tableExists = FALSE
  /\ uniq = FALSE
  /\ subs = <<>>
  /\ wpending = EmptyBag
  /\ wres = 0

(* A fresh deployment: no serials directory, no files. *)
Init ==
  /\ dirExists = FALSE
  /\ files = [k \in FilePaths |-> NoFile]
  /\ TypeInit

(* Any deployment: a fresh one, or one whose file for the first date was   *)
(* left behind with some content (an earlier run, an operator, a restore). *)
InitSeeded ==
  /\ \/ /\ dirExists = FALSE
        /\ files = [k \in FilePaths |-> NoFile]
     \/ /\ dirExists = TRUE
        /\ \E v \in SeedValues :
             files = [k \in FilePaths |->
                        IF k = getSerialFilePath(formatDate8(Dates[1])) THEN File(v)
                        ELSE NoFile]
  /\ TypeInit

(* Lines 24-28: entry, ensureDir succeeds, date8 and filePath computed.    *)
Call(p) ==
  /\ FirstIdle(p)
  /\ calls < MaxCalls
  /\ dirExists' = TRUE
  /\ date8' = [date8 EXCEPT ![p] = formatDate8(Dates[today])]
  /\ last' = [last EXCEPT ![p] = Nat2Num(0)]
  /\ pc' = [pc EXCEPT ![p] = "exists"]
  /\ calls' = calls + 1
  /\ overlapped' = (overlapped \/ ~Quiet)
  /\ changed' = [changed EXCEPT ![p] = FALSE]
  /\ readErr' = [readErr EXCEPT ![p] = FALSE]
  /\ UNCHANGED <<files, today, hist, outcome, restarted>>
  /\ UNCHANGED web

(* Lines 7-11, 25: mkdirSync throws; the exception leaves getDailySerial.  *)
CallMkdirThrows(p) ==
  /\ FirstIdle(p)
  /\ calls < MaxCalls
  /\ ~dirExists
  /\ calls' = calls + 1
  /\ overlapped' = (overlapped \/ ~Quiet)
  /\ outcome' = [kind |-> "throw", phase |-> "mkdir", changed |-> FALSE]
  /\ UNCHANGED <<dirExists, files, today, pc, hist, restarted, locals>>
  /\ UNCHANGED web

(* Line 29: fs.existsSync(filePath) *)
Exists(p) ==
  /\ pc[p] = "exists"
  /\ pc' = [pc EXCEPT ![p] =
              IF files[getSerialFilePath(date8[p])].exists THEN "read" ELSE "open"]
  /\ UNCHANGED <<dirExists, files, today, date8, last, calls, hist, outcome,
                 overlapped, restarted, changed, readErr>>
  /\ UNCHANGED web

(* Lines 31-33: readFileSync succeeds, the content is parsed.              *)
Read(p) ==
  /\ pc[p] = "read"
  /\ last' = [last EXCEPT ![p] = readLast(files[getSerialFilePath(date8[p])])]
  /\ pc' = [pc EXCEPT ![p] = "open"]
  /\ UNCHANGED <<dirExists, files, today, date8, calls, hist, outcome,
                 overlapped, restarted, changed, readErr>>
  /\ UNCHANGED web

(* Lines 30-34: readFileSync throws, catch {} swallows it, last stays 0.   *)
ReadThrows(p) ==
  /\ pc[p] = "read"
  /\ readErr' = [readErr EXCEPT ![p] = TRUE]
  /\ pc' = [pc EXCEPT ![p] = "open"]
  /\ UNCHANGED <<dirExists, files, today, date8, last, calls, hist, outcome,
                 overlapped, restarted, changed>>
  /\ UNCHANGED web

(* Line 38, first half: writeFileSync opens the file with flag 'w', which  *)
(* creates it or truncates it to length 0.                                 *)
Open(p) ==
  /\ pc[p] = "open"
  /\ files' = [files EXCEPT ![getSerialFilePath(date8[p])] = File(<<>>)]
  /\ changed' = [changed EXCEPT ![p] = changed[p] \/ CounterChange(files, files')]
  /\ pc' = [pc EXCEPT ![p] = "write"]
  /\ UNCHANGED <<dirExists, today, date8, last, calls, hist, outcome,
                 overlapped, restarted, readErr>>
  /\ UNCHANGED web

(* Line 38: the open fails (permission denied, read-only file system);     *)
(* writeFileSync throws and the exception leaves getDailySerial.           *)
OpenThrows(p) ==
  /\ pc[p] = "open"
  /\ outcome' = Outcome(p, "throw")
  /\ Reset(p)
  /\ UNCHANGED <<dirExists, files, today, calls, hist, overlapped, restarted>>
  /\ UNCHANGED web

(* The data written is String(last) instead of String(next). *)
WritePersistsLast(p) ==
  /\ pc[p] = "write"
  /\ files' = [files EXCEPT ![getSerialFilePath(date8[p])] = File(String(last[p]))]
  /\ hist' = Append(hist, Returned(p))
  /\ outcome' = [kind |-> "ret", phase |-> "write",
                 changed |-> changed[p] \/ CounterChange(files, files')]
  /\ restarted' = FALSE
  /\ Reset(p)
  /\ UNCHANGED <<dirExists, today, calls, overlapped>>
  /\ UNCHANGED web

(* Lines 36-39: next = last + 1, the data String(next) is written to the   *)
(* opened file, and the serial is returned.                                *)
Write(p) ==
  /\ pc[p] = "write"
  /\ LET next == PlusOne(last[p])
     IN  files' = [files EXCEPT ![getSerialFilePath(date8[p])] = File(String(next))]
  /\ hist' = Append(hist, Returned(p))
  /\ outcome' = [kind |-> "ret", phase |-> "write",
                 changed |-> changed[p] \/ CounterChange(files, files')]
  /\ restarted' = FALSE
  /\ Reset(p)
  /\ UNCHANGED <<dirExists, today, calls, overlapped>>
  /\ UNCHANGED web

(* Line 38: the data write fails after the open truncated the file (disk   *)
(* full, I/O error); writeFileSync throws.                                 *)
WriteThrows(p) ==
  /\ pc[p] = "write"
  /\ outcome' = Outcome(p, "throw")
  /\ Reset(p)
  /\ UNCHANGED <<dirExists, files, today, calls, hist, overlapped, restarted>>
  /\ UNCHANGED web

(* The process dies in the middle of a call and is restarted: everything   *)
(* in memory is lost, the files stay.                                      *)
Crash(p) ==
  /\ pc[p] # "idle"
  /\ outcome' = Outcome(p, "crash")
  /\ Reset(p)
  /\ UNCHANGED <<dirExists, files, today, calls, hist, overlapped, restarted>>
  /\ UNCHANGED web

(* The server is restarted while no call is in flight. *)
Restart ==
  /\ Quiet
  /\ ~restarted
  /\ restarted' = TRUE
  /\ UNCHANGED <<dirExists, files, today, pc, calls, hist, outcome, overlapped, locals>>
  /\ UNCHANGED web

(* Midnight: the local date moves on. *)
Tick ==
  /\ today < Len(Dates)
  /\ today' = today + 1
  /\ UNCHANGED <<dirExists, files, pc, calls, hist, outcome, overlapped, restarted,
                 locals>>
  /\ UNCHANGED web

Next ==
  \/ \E p \in Procs : Call(p)
  \/ \E p \in Procs : CallMkdirThrows(p)
  \/ \E p \in Procs : Exists(p)
  \/ \E p \in Procs : Read(p)
  \/ \E p \in Procs : ReadThrows(p)
  \/ \E p \in Procs : Open(p)
  \/ \E p \in Procs : OpenThrows(p)
  \/ \E p \in Procs : Write(p)
  \/ \E p \in Procs : WriteThrows(p)
  \/ \E p \in Procs : Crash(p)
  \/ Restart
  \/ Tick

Spec == Init /\ [][Next]_vars

SpecSeeded == InitSeeded /\ [][Next]_vars

TypeOK ==
  /\ dirExists \in BOOLEAN
  /\ today \in 1..Len(Dates)
  /\ \A p \in Procs : pc[p] \in {"idle", "exists", "read", "open", "write"}
  /\ calls \in 0..MaxCalls
  /\ Len(hist) <= calls

(* --------------------------- routes/quotations.js ---------------------- *)
(* Values a client may send as quote_number and customer_name.  The last   *)
(* quote_number has the shape of a serial of the first date.               *)
QuoteNumbers ==
  {Undefined, Num(Nat2Num(7)), Str(serialOf(formatDate8(Dates[1]), Nat2Num(0)))}

CustomerNames == {Undefined, Str(<<"A">>)}

(* Lines 40-47: the row inserted into quotations. *)
QuotationRow(qn, cn) ==
  [id |-> Len(quotations) + 1, quote_number |-> ToStr(qn), customer_name |-> ToStr(cn)]

ItemRows(qid, k) == [j \in 1..k |-> [quotation_id |-> qid]]

(* Lines 36-38: customer_name or quote_number missing: 400.                *)
PostQuotationsBadRequest(qn, cn) ==
  /\ Falsy(cn) \/ Falsy(qn)
  /\ qres' = [status |-> 400, id |-> 0, quote_number |-> <<>>]
  /\ UNCHANGED <<quotations, quotation_items, serials, expenses, push>>

(* Lines 25-77: the quotation and its k items are inserted, the summary    *)
(* row is read back and returned with 201.                                 *)
PostQuotations(qn, cn, k) ==
  /\ ~(Falsy(cn) \/ Falsy(qn))
  /\ Len(quotations) < MaxQuotations
  /\ LET row == QuotationRow(qn, cn)
     IN  /\ quotations' = Append(quotations, row)
         /\ quotation_items' = quotation_items \o ItemRows(row.id, k)
         /\ qres' = [status |-> 201, id |-> row.id, quote_number |-> row.quote_number]
  /\ UNCHANGED <<serials, expenses, push>>

(* Lines 49-81: a query throws: the INSERT of the quotation (nothing is    *)
(* stored), the INSERT of item j + 1 (the quotation and j items stay), or  *)
(* the summary SELECT (everything stays); the response is 500.             *)
PostQuotationsFails(qn, cn, k, at) ==
  /\ ~(Falsy(cn) \/ Falsy(qn))
  /\ Len(quotations) < MaxQuotations
  /\ at \in 0..(k + 1)
  /\ LET row == QuotationRow(qn, cn)
     IN  IF at = 0
         THEN UNCHANGED <<quotations, quotation_items>>
         ELSE /\ quotations' = Append(quotations, row)
              /\ quotation_items' = quotation_items \o ItemRows(row.id, at - 1)
  /\ qres' = [status |-> 500, id |-> 0, quote_number |-> <<>>]
  /\ UNCHANGED <<serials, expenses, push>>

NextQuotations ==
  \/ \E p \in Procs : Call(p)
  \/ \E p \in Procs : CallMkdirThrows(p)
  \/ \E p \in Procs : Exists(p)
  \/ \E p \in Procs : Read(p)
  \/ \E p \in Procs : ReadThrows(p)
  \/ \E p \in Procs : Open(p)
  \/ \E p \in Procs : OpenThrows(p)
  \/ \E p \in Procs : Write(p)
  \/ \E p \in Procs : WriteThrows(p)
  \/ \E p \in Procs : Crash(p)
  \/ Restart
  \/ Tick
  \/ \E qn \in QuoteNumbers, cn \in CustomerNames : PostQuotationsBadRequest(qn, cn)
  \/ \E qn \in QuoteNumbers, cn \in CustomerNames, k \in 0..MaxItems :
       PostQuotations(qn, cn, k)
  \/ \E qn \in QuoteNumbers, cn \in CustomerNames, k \in 0..MaxItems, at \in 0..(MaxItems + 1) :
       PostQuotationsFails(qn, cn, k, at)

SpecQuotations == Init /\ [][NextQuotations]_vars

(* ------------------------ routes/instantExpenses.js -------------------- *)
(* The handlers are async: a handler runs until its next awaited query,    *)
(* and requests in flight interleave at those awaits.  The table users is  *)
(* written by no route, so a query on it is taken together with the step   *)
(* that issues it; the queries on instant_expense_sheets are steps of      *)
(* their own.  A row just found or inserted is never deleted or changed    *)
(* by these routes, so the fetch of it by id is taken with the step        *)
(* before it.  Sheet ids (CUST- and the last digits of Date.now()) are     *)
(* taken distinct: the id of a sheet is its position in the table.         *)

UpperCase ==
  <<"A", "B", "C", "D", "E", "F", "G", "H", "I", "J", "K", "L", "M",
    "N", "O", "P", "Q", "R", "S", "T", "U", "V", "W", "X", "Y", "Z">>

LowerCase ==
  <<"a", "b", "c", "d", "e", "f", "g", "h", "i", "j", "k", "l", "m",
    "n", "o", "p", "q", "r", "s", "t", "u", "v", "w", "x", "y", "z">>

(* String.prototype.toLowerCase *)
toLowerCase(s) ==
  [i \in 1..Len(s) |->
     IF \E k \in 1..26 : UpperCase[k] = s[i]
     THEN LowerCase[CHOOSE k \in 1..26 : UpperCase[k] = s[i]]
     ELSE s[i]]

(* /^[0-9]+$/.test(s) and /^\d+$/.test(s) *)
DigitsOnly(s) == s # <<>> /\ IsDigits(s)

(* The digits a string starts with. *)
RECURSIVE LeadingDigits(_)
LeadingDigits(s) ==
  IF s # <<>> /\ s[1] \in DigitChars THEN <<s[1]>> \o LeadingDigits(Tail(s)) ELSE <<>>

(* The number MySQL compares an integer column with, for a parameter v:    *)
(* a number is itself, a string is the number it starts with (0 if none).  *)
MySqlNumber(v) ==
  IF v.t = "number" THEN (IF v.n.k = "fin" /\ ~v.n.neg /\ v.n.frac = <<>> THEN v.n.int ELSE -1)
  ELSE IF v.t = "string" THEN DigitsToNat(LeadingDigits(v.s))
  ELSE -1

Sara == <<"s", "a", "r", "a">>
Omar == <<"o", "m", "a", "r">>
Root == <<"r", "o", "o", "t">>
Ghost == <<"g", "h", "o", "s", "t">>
AdminStr == <<"a", "d", "m", "i", "n">>
EmployeeStr == <<"e", "m", "p", "l", "o", "y", "e", "e">>

(* The rows of table users: an employee with the purchase management      *)
(* permission, an employee without it, and an administrator.               *)
Users ==
  << [id |-> 1, username |-> Sara, role |-> EmployeeStr, has_purchase_management_permission |-> 1],
     [id |-> 2, username |-> Omar, role |-> EmployeeStr, has_purchase_management_permission |-> 0],
     [id |-> 3, username |-> Root, role |-> <<"A", "d", "m", "i", "n">>,
      has_purchase_management_permission |-> 0] >>

(* SELECT ... FROM users WHERE id = ? *)
UsersWhereId(v) == SelectSeq(Users, LAMBDA u : u.id = MySqlNumber(v))

(* SELECT ... FROM users WHERE username = ?  (a parameter that is not a    *)
(* string matches no username of Users)                                    *)
UsersWhereUsername(v) == SelectSeq(Users, LAMBDA u : v.t = "string" /\ u.username = v.s)

(* SELECT id FROM users WHERE username = ? OR id = ? *)
UsersWhereUsernameOrId(v) ==
  SelectSeq(Users, LAMBDA u : (v.t = "string" /\ u.username = v.s) \/ u.id = MySqlNumber(v))

(* What requests carry: x-user-id, x-user-role, body.employeeId,           *)
(* body.custodyNumber, the path parameter :number, and how the database    *)
(* answers the query of the middleware.                                    *)
HeaderIds == {Undefined, Str(<<"1">>), Str(Sara), Str(Omar), Str(<<"3">>), Str(Ghost)}

RoleHeaders == {Undefined, Str(<<"A", "d", "m", "i", "n">>), Str(EmployeeStr)}

EmployeeIds == {Undefined, Str(Sara), Num(Nat2Num(2))}

CustodyNumbers == {Undefined, Str(<<"1", "2">>), Str(<<" ", "1", "2">>), Str(<<"1", "a">>)}

NumberParams == {<<"1", "2">>, <<" ", "1", "2">>}

DbOutcomes == {"ok", "bad_field", "error"}

Routes == {"list", "byNumber", "create"}

(* Line 36, mutated: every user found is let through. *)
HasPermissionAlways(user, db) == TRUE

(* Line 36; after ER_BAD_FIELD_ERROR the row has no permission column.     *)
HasPermission(user, db) ==
  \/ toLowerCase(user.role) = AdminStr
  \/ db # "bad_field" /\ user.has_purchase_management_permission # 0

PassOn == [next |-> TRUE, status |-> 0]

Reject(status) == [next |-> FALSE, status |-> status]

(* Lines 6-44: next() is called, or the middleware responds itself. *)
checkPurchaseManagementPermission(hdr, role, emp, db) ==
  LET requesterIdOrUsername == IF Falsy(hdr) THEN emp ELSE hdr
      roleHeader == toLowerCase(IF Falsy(role) THEN <<>> ELSE ToStr(role))
      idStr == ToStr(requesterIdOrUsername)
      userRows == IF DigitsOnly(idStr) THEN UsersWhereId(requesterIdOrUsername)
                  ELSE UsersWhereUsername(requesterIdOrUsername)
  IN  IF Falsy(requesterIdOrUsername) /\ roleHeader = AdminStr THEN PassOn
      ELSE IF Falsy(requesterIdOrUsername) THEN Reject(401)
      ELSE IF db = "error" THEN Reject(500)
      ELSE IF userRows = <<>> THEN Reject(404)
      ELSE IF HasPermission(userRows[1], db) THEN PassOn
      ELSE Reject(403)

(* The identification a request carries: x-user-id, x-user-role and       *)
(* body.employeeId.                                                        *)
Requesters == HeaderIds \X RoleHeaders \X EmployeeIds

(* The requesters the middleware calls next() for, for some answer of the *)
(* database.                                                               *)
Admitted ==
  {q \in Requesters :
     \E db \in DbOutcomes : checkPurchaseManagementPermission(q[1], q[2], q[3], db).next}

(* The requesters the middleware responds to itself, with the status.      *)
Refused ==
  {qs \in Requesters \X {401, 403, 404, 500} :
     \E db \in DbOutcomes :
       checkPurchaseManagementPermission(qs[1][1], qs[1][2], qs[1][3], db) = Reject(qs[2])}

Passes(hdr, role, emp) == <<hdr, role, emp>> \in Admitted

(* The server runs one callback at a time: xres holds what the callback    *)
(* running now has done, and is empty between callbacks.                   *)
Ready == xres = NoRequest

(* The request that has just arrived, and what became of it so far. *)
Arrived(route, hdr, role, emp, reached, touched, status, rows) ==
  [route |-> route, known |-> TRUE, hdr |-> hdr, role |-> role, emp |-> emp,
   reached |-> reached, touched |-> touched, status |-> status, rows |-> rows]

(* The response of a POST /instant-expenses/sheets that arrived earlier. *)
Continued(status, rows) ==
  [route |-> "create", known |-> FALSE, hdr |-> Undefined, role |-> Undefined,
   emp |-> Undefined, reached |-> TRUE, touched |-> TRUE, status |-> status, rows |-> rows]

RECURSIVE Reverse(_)
Reverse(s) == IF s = <<>> THEN s ELSE Reverse(Tail(s)) \o <<s[1]>>

(* SELECT ... FROM instant_expense_sheets WHERE custody_number = ? *)
SheetsWhereNumber(str) ==
  SelectSeq(sheets, LAMBDA r : r.custody_number.t = "string" /\ r.custody_number.s = str)

(* The value column custody_number takes from payload.custody_number. *)
ColumnValue(v) == IF Falsy(v) THEN Null ELSE Str(ToStr(v))

(* The handlers in flight keep nothing but their locals, so they are a    *)
(* bag of [pc, cn, emp, uid]: the await reached, custodyNumber,            *)
(* employeeId and userId.                                                  *)
InFlight == BagCardinality(pending)

Await(at, cn, emp, uid) == SetToBag({[pc |-> at, cn |-> cn, emp |-> emp, uid |-> uid]})

(* Lines 14-16, 32-34, 39, 42 on any of the routes: the middleware         *)
(* responds 401, 404, 403 or 500 and the handler is not called.            *)
Denied(route, hdr, role, emp, status) ==
  /\ Ready
  /\ <<<<hdr, role, emp>>, status>> \in Refused
  /\ xres' = Arrived(route, hdr, role, emp, FALSE, FALSE, status, <<>>)
  /\ UNCHANGED <<sheets, pending, serials, quotes, push>>

(* Lines 76-121: GET /instant-expenses/sheets. *)
GetSheets(hdr, role, emp, ok) ==
  LET requesterIdOrUsername == hdr
      requesterRole == toLowerCase(IF Falsy(role) THEN <<>> ELSE ToStr(role))
      restrict == requesterRole = EmployeeStr /\ ~Falsy(requesterIdOrUsername)
      idStr == ToStr(requesterIdOrUsername)
      isNumericId == DigitsOnly(idStr)
      userRows == UsersWhereUsernameOrId(requesterIdOrUsername)
      userIdForFilter == IF isNumericId THEN DigitsToNat(idStr) ELSE userRows[1].id
      rows == IF restrict
              THEN SelectSeq(sheets, LAMBDA r : r.user_id = userIdForFilter)
              ELSE sheets
  IN  /\ Ready
      /\ Passes(hdr, role, emp)
      /\ xres' = IF ~ok THEN Arrived("list", hdr, role, emp, TRUE, TRUE, 500, <<>>)
                 ELSE IF restrict /\ ~isNumericId /\ userRows = <<>>
                 THEN Arrived("list", hdr, role, emp, TRUE, FALSE, 200, <<>>)
                 ELSE Arrived("list", hdr, role, emp, TRUE, TRUE, 200, Reverse(rows))
      /\ UNCHANGED <<sheets, pending, serials, quotes, push>>

(* Lines 124-143: GET /instant-expenses/sheets/by-number/:number. *)
GetSheetByNumber(hdr, role, emp, number, ok) ==
  LET byNum == SheetsWhereNumber(number)
  IN  /\ Ready
      /\ Passes(hdr, role, emp)
      /\ xres' = IF ~DigitsOnly(number)
                 THEN Arrived("byNumber", hdr, role, emp, TRUE, FALSE, 400, <<>>)
                 ELSE IF ~ok THEN Arrived("byNumber", hdr, role, emp, TRUE, TRUE, 500, <<>>)
                 ELSE IF byNum = <<>>
                 THEN Arrived("byNumber", hdr, role, emp, TRUE, TRUE, 404, <<>>)
                 ELSE Arrived("byNumber", hdr, role, emp, TRUE, TRUE, 200, <<byNum[1]>>)
      /\ UNCHANGED <<sheets, pending, serials, quotes, push>>

(* Lines 149-154: custodyNumber is absent, or digits only once trimmed. *)
NumberAccepted(cn) == cn.t \in {"undefined", "null"} \/ DigitsOnly(trim(ToStr(cn)))

(* Lines 146-154: POST /instant-expenses/sheets with a custodyNumber that  *)
(* is refused: 400.                                                        *)
PostSheetsBadNumber(hdr, role, emp, cn) ==
  /\ Ready
  /\ Passes(hdr, role, emp)
  /\ ~NumberAccepted(cn)
  /\ xres' = Arrived("create", hdr, role, emp, TRUE, FALSE, 400, <<>>)
  /\ UNCHANGED <<sheets, pending, serials, quotes, push>>

(* Lines 146-165: POST /instant-expenses/sheets up to its first query on   *)
(* the sheets: the duplicate check of line 157 when there is a             *)
(* custodyNumber, else (after the lookup of the employee) the INSERT.      *)
PostSheets(hdr, role, emp, cn, ok) ==
  LET userRows == UsersWhereUsernameOrId(emp)
  IN  /\ Ready
      /\ InFlight < MaxInFlight
      /\ Len(sheets) + InFlight < MaxSheets
      /\ Passes(hdr, role, emp)
      /\ NumberAccepted(cn)
      /\ IF cn.t \notin {"undefined", "null"}
         THEN /\ ok
              /\ pending' = pending (+) Await("dupe", cn, emp, 0)
              /\ xres' = Arrived("create", hdr, role, emp, TRUE, TRUE, 0, <<>>)
         ELSE IF ~ok
         THEN /\ xres' = Arrived("create", hdr, role, emp, TRUE, FALSE, 500, <<>>)
              /\ UNCHANGED pending
         ELSE IF userRows = <<>>
         THEN /\ xres' = Arrived("create", hdr, role, emp, TRUE, FALSE, 404, <<>>)
              /\ UNCHANGED pending
         ELSE /\ pending' = pending (+) Await("insert", cn, Undefined, userRows[1].id)
              /\ xres' = Arrived("create", hdr, role, emp, TRUE, TRUE, 0, <<>>)
      /\ UNCHANGED <<sheets, serials, quotes, push>>

(* Lines 157-165: the duplicate check is answered: 409 with the sheet      *)
(* found, else the employee is looked up: 404, or the INSERT is issued.    *)
DupeCheck(h) ==
  LET dupeRows == SheetsWhereNumber(ToStr(h.cn))
      userRows == UsersWhereUsernameOrId(h.emp)
      others == pending (-) SetToBag({h})
  IN  /\ Ready
      /\ h.pc = "dupe"
      /\ IF dupeRows # <<>>
         THEN xres' = Continued(409, <<dupeRows[1]>>) /\ pending' = others
         ELSE IF userRows = <<>>
         THEN xres' = Continued(404, <<>>) /\ pending' = others
         ELSE /\ pending' = others (+) Await("insert", h.cn, Undefined, userRows[1].id)
              /\ UNCHANGED xres
      /\ UNCHANGED <<sheets, serials, quotes, push>>

(* Lines 167-192: the INSERT is executed and the sheet is returned: 201. *)
Insert(h) ==
  LET payload == [id |-> Len(sheets) + 1, custody_number |-> ColumnValue(h.cn),
                  user_id |-> h.uid]
  IN  /\ Ready
      /\ h.pc = "insert"
      /\ sheets' = Append(sheets, payload)
      /\ xres' = Continued(201, <<payload>>)
      /\ pending' = pending (-) SetToBag({h})
      /\ UNCHANGED <<serials, quotes, push>>

(* Lines 193-196: the query awaited throws: 500. *)
QueryThrows(h) ==
  /\ Ready
  /\ xres' = Continued(500, <<>>)
  /\ pending' = pending (-) SetToBag({h})
  /\ UNCHANGED <<sheets, serials, quotes, push>>

(* The callback returns; the next one may run. *)
EndTurn ==
  /\ ~Ready
  /\ xres' = NoRequest
  /\ UNCHANGED <<sheets, pending, serials, quotes, push>>

NextExpenses ==
  \/ \E route \in Routes, d \in Refused : Denied(route, d[1][1], d[1][2], d[1][3], d[2])
  \/ \E q \in Admitted, ok \in BOOLEAN : GetSheets(q[1], q[2], q[3], ok)
  \/ \E q \in Admitted, number \in NumberParams, ok \in BOOLEAN :
        GetSheetByNumber(q[1], q[2], q[3], number, ok)
  \/ \E q \in Admitted, cn \in CustodyNumbers : PostSheetsBadNumber(q[1], q[2], q[3], cn)
  \/ \E q \in Admitted, cn \in CustodyNumbers, ok \in BOOLEAN :
        PostSheets(q[1], q[2], q[3], cn, ok)
  \/ \E h \in BagToSet(pending) : DupeCheck(h)
  \/ \E h \in BagToSet(pending) : Insert(h)
  \/ \E h \in BagToSet(pending) : QueryThrows(h)
  \/ EndTurn

SpecExpenses == Init /\ [][NextExpenses]_vars

(* ------------------------ POST /webpush/subscribe ---------------------- *)
(* The handler awaits CREATE TABLE IF NOT EXISTS, the column repair, DROP  *)
(* INDEX, ADD UNIQUE INDEX and the upsert in turn; handlers in flight      *)
(* interleave at these statements.  The columns keys_auth, keys_p256dh and *)
(* raw are taken to exist, so the column repair (lines 58-72) changes      *)
(* nothing and goes with CREATE TABLE.  Endpoints are shorter than the 191 *)
(* characters the index covers.                                            *)
UserIds == {Undefined, Num(Nat2Num(1)), Str(<<"1">>)}

Endpoints == {Undefined, Str(<<"e", "1">>), Str(<<"e", "2">>)}

AuthKeys == {Undefined, Str(<<"k">>)}

Subscribing(at, userId, endpoint, auth) ==
  SetToBag({[pc |-> at, userId |-> userId, endpoint |-> endpoint, auth |-> auth]})

(* The rows the unique key (user_id, endpoint(191)) sets against values.   *)
SamePair(row, user_id, endpoint) == row.user_id = user_id /\ row.endpoint = endpoint

(* ADD UNIQUE INDEX fails on a table that holds a pair twice. *)
PairsUnique(rows) ==
  \A i, j \in 1..Len(rows) : SamePair(rows[i], rows[j].user_id, rows[j].endpoint) => i = j

(* Lines 36-38: userId or endpoint missing: 400. *)
SubscribeBadRequest(userId, endpoint) ==
  /\ Falsy(userId) \/ Falsy(endpoint)
  /\ wres' = 400
  /\ UNCHANGED <<tableExists, uniq, subs, wpending, serials, quotes, expenses>>

(* Lines 27-42: the request arrives and CREATE TABLE is issued. *)
Subscribe(userId, endpoint, auth) ==
  /\ ~(Falsy(userId) \/ Falsy(endpoint))
  /\ BagCardinality(wpending) < MaxInFlight
  /\ Len(subs) + BagCardinality(wpending) < MaxSubs
  /\ wpending' = wpending (+)
                   Subscribing("create", userId, endpoint, IF Falsy(auth) THEN Null ELSE auth)
  /\ UNCHANGED <<tableExists, uniq, subs, wres, serials, quotes, expenses>>

(* Lines 42-72: CREATE TABLE IF NOT EXISTS creates the table with its      *)
(* unique key, or finds the table; if it throws the response is 500.       *)
CreateTable(h, ok) ==
  /\ h.pc = "create"
  /\ IF ok
     THEN /\ tableExists' = TRUE
          /\ uniq' = (IF tableExists THEN uniq ELSE TRUE)
          /\ wpending' = (wpending (-) SetToBag({h}))
                           (+) Subscribing("drop", h.userId, h.endpoint, h.auth)
          /\ UNCHANGED wres
     ELSE /\ wres' = 500
          /\ wpending' = wpending (-) SetToBag({h})
          /\ UNCHANGED <<tableExists, uniq>>
  /\ UNCHANGED <<subs, serials, quotes, expenses>>

(* Line 75: DROP INDEX uniq_user_endpoint; an error is swallowed. *)
DropIndex(h, ok) ==
  /\ h.pc = "drop"
  /\ uniq' = (IF ok THEN FALSE ELSE uniq)
  /\ wpending' = (wpending (-) SetToBag({h}))
                   (+) Subscribing("add", h.userId, h.endpoint, h.auth)
  /\ UNCHANGED <<tableExists, subs, wres, serials, quotes, expenses>>

(* Line 76: ADD UNIQUE INDEX uniq_user_endpoint; an error (the index is    *)
(* there already, the table holds a pair twice, or any other) is swallowed.*)
AddIndex(h, ok) ==
  /\ h.pc = "add"
  /\ uniq' = (uniq \/ (ok /\ PairsUnique(subs)))
  /\ wpending' = (wpending (-) SetToBag({h}))
                   (+) Subscribing("upsert", h.userId, h.endpoint, h.auth)
  /\ UNCHANGED <<tableExists, subs, wres, serials, quotes, expenses>>

(* Lines 78-89: INSERT ... ON DUPLICATE KEY UPDATE: with the unique index  *)
(* a row of the same pair is updated, else a row is added; 200, or 500 if  *)
(* the statement throws.                                                   *)
Upsert(h, ok) ==
  LET user_id == MySqlNumber(h.userId)
      endpoint == ToStr(h.endpoint)
      hits == {i \in 1..Len(subs) : SamePair(subs[i], user_id, endpoint)}
  IN  /\ h.pc = "upsert"
      /\ IF ~ok
         THEN wres' = 500 /\ UNCHANGED subs
         ELSE /\ wres' = 200
              /\ IF uniq /\ hits # {}
                 THEN subs' = [i \in 1..Len(subs) |->
                                 IF i \in hits THEN [subs[i] EXCEPT !.keys_auth = h.auth]
                                 ELSE subs[i]]
                 ELSE subs' = Append(subs, [id |-> Len(subs) + 1, user_id |-> user_id,
                                            endpoint |-> endpoint, keys_auth |-> h.auth])
      /\ wpending' = wpending (-) SetToBag({h})
      /\ UNCHANGED <<tableExists, uniq, serials, quotes, expenses>>

NextWebPush ==
  \/ \E userId \in UserIds, endpoint \in Endpoints : SubscribeBadRequest(userId, endpoint)
  \/ \E userId \in UserIds, endpoint \in Endpoints, auth \in AuthKeys :
       Subscribe(userId, endpoint, auth)
  \/ \E h \in BagToSet(wpending), ok \in BOOLEAN : CreateTable(h, ok)
  \/ \E h \in BagToSet(wpending), ok \in BOOLEAN : DropIndex(h, ok)
  \/ \E h \in BagToSet(wpending), ok \in BOOLEAN : AddIndex(h, ok)
  \/ \E h \in BagToSet(wpending), ok \in BOOLEAN : Upsert(h, ok)

SpecWebPush == Init /\ [][NextWebPush]_vars

(* ------------------------------ properties ----------------------------- *)
RetsOn(k) == {i \in 1..Len(hist) : hist[i].date8 = k}

(* a >= b on non-negative numbers *)
NumGe(a, b) ==
  \/ a.k = "inf"
  \/ a.k = "fin" /\ b.k = "fin" /\ a.int >= b.int

(* The step just taken is p's call returning, or p crashing in mid-call.   *)
RetStep(p) == pc[p] = "write" /\ pc'[p] = "idle" /\ Len(hist') = Len(hist) + 1

CrashStep(p) == pc[p] # "idle" /\ pc'[p] = "idle" /\ outcome'.kind = "crash"

(* C1: no two calls that return a serial for the same date return the      *)
(* same counter value (nor the same string).                               *)
C1_Uniqueness ==
  \A k \in DateKeys : \A i, j \in RetsOn(k) :
    i # j => hist[i].n # hist[j].n /\ hist[i].serial # hist[j].serial

(* C2: once K calls for a date whose record did not exist have all         *)
(* returned, the counters returned are exactly 1..K and the stored counter *)
(* is K.                                                                   *)
C2_NoGaps ==
  (Quiet /\ Len(hist) = calls) =>
    \A k \in DateKeys :
      LET K == Cardinality(RetsOn(k))
      IN  /\ {hist[i].n : i \in RetsOn(k)} = {Nat2Num(c) : c \in 1..K}
          /\ readLast(files[getSerialFilePath(k)]) = Nat2Num(K)

(* C3: when calls never overlap, the counters returned for a date are      *)
(* 1, 2, 3, ... in the order of the calls.                                 *)
C3_Monotonic ==
  ~overlapped =>
    \A k \in DateKeys : \A i \in RetsOn(k) :
      hist[i].n = Nat2Num(1 + Cardinality({j \in RetsOn(k) : j < i}))

(* C4: whenever no write to a date's file is in progress, its stored       *)
(* counter is at least every value it held before (the values returned).   *)
C4_NonDecreasing ==
  \A k \in DateKeys :
    (\A p \in Procs : ~(pc[p] = "write" /\ date8[p] = k)) =>
      \A i \in RetsOn(k) : NumGe(readLast(files[getSerialFilePath(k)]), hist[i].n)

BeforeWrite == {"exists", "read", "open"}

C6_ReadFailureSurfaced ==
  \A i \in 1..Len(hist) : ~hist[i].readErr

(* C7: a call that has just failed has changed no stored counter.          *)
C7_NoPartialState ==
  outcome.kind = "throw" => ~outcome.changed

(* The content parses as a non-negative integer. *)
IsCounterText(data) == trim(data) # <<>> /\ IsDigits(trim(data))

CounterPart(serial) == SubSeq(serial, Len(FIXED_PREFIX) + 8 + 1, Len(serial))

(* C8: a read of content that is not a non-negative integer leaves last at *)
(* 0 (or the call fails), and every returned string ends in a run of at    *)
(* least 3 decimal digits.                                                 *)
C8_CorruptionHandled ==
  [][\A p \in Procs :
       /\ (pc[p] = "read" /\ pc'[p] = "open"
             /\ ~IsCounterText(files[getSerialFilePath(date8[p])].data)) =>
            last'[p] = Nat2Num(0)
       /\ RetStep(p) =>
            LET c == CounterPart(hist'[Len(hist')].serial)
            IN  Len(c) >= 3 /\ IsDigits(c)]_vars

(* C9: the first serial returned for a date whose record did not exist has *)
(* counter 1, whatever the other dates' counters are, and a step changes   *)
(* the file of a date only on behalf of a call made for that date.         *)
C9_DateIndependence ==
  [][/\ \A k \in DateKeys :
          RetsOn(k)' # {} =>
            LET first == CHOOSE i \in RetsOn(k)' : \A j \in RetsOn(k)' : i <= j
            IN  hist'[first].n = Nat2Num(1)
     /\ \A f \in DOMAIN files :
          files'[f] # files[f] => \E p \in Procs : pc[p] # "idle" /\ date8[p] = f]_vars

C9_Witness ==
  \E i, j \in 1..Len(hist) :
    /\ i < j
    /\ hist[i].date8 = formatDate8(Dates[1]) /\ hist[i].n = Nat2Num(2)
    /\ hist[j].date8 = formatDate8(Dates[2]) /\ hist[j].n = Nat2Num(1)
    /\ readLast(files[formatDate8(Dates[1])]) = Nat2Num(2)
    /\ readLast(files[formatDate8(Dates[2])]) = Nat2Num(1)

(* C10: when calls never overlap, a serial returned for a date by a call   *)
(* made after a restart continues the sequence: its counter is the counter *)
(* of the previous serial returned for that date plus 1.                   *)
C10_AcrossRestart ==
  ~overlapped =>
    \A k \in DateKeys : \A i, j \in RetsOn(k) :
      ( /\ i < j
        /\ \A m \in RetsOn(k) : ~(i < m /\ m < j)
        /\ hist[j].afterRestart )
      => hist[j].n = PlusOne(hist[i].n)

(* C11: every returned string is FIXED_PREFIX, then the 8 digits of the    *)
(* date of the call, then the counter in decimal, padded with zeros to at  *)
(* least 3 digits and never truncated.                                     *)
C11_Format ==
  \A i \in 1..Len(hist) :
    LET s == hist[i].serial
        P == Len(FIXED_PREFIX)
        d == SubSeq(s, P + 1, P + 8)
        c == CounterPart(s)
    IN  /\ FIXED_PREFIX # <<>> /\ SubSeq(s, 1, P) = FIXED_PREFIX
        /\ Len(d) = 8 /\ IsDigits(d) /\ d = hist[i].date8
        /\ Len(c) >= 3 /\ IsDigits(c)
        /\ hist[i].n = Nat2Num(DigitsToNat(c))
        /\ Len(c) > 3 => c[1] # "0"

(* C12: every row of quotations has a quote_number that getDailySerial     *)
(* returned, and a 201 response carries the quote_number of its row.       *)
C12_FromAllocator ==
  /\ \A r \in 1..Len(quotations) :
       \E i \in 1..Len(hist) : hist[i].serial = quotations[r].quote_number
  /\ qres.status = 201 => quotations[qres.id].quote_number = qres.quote_number

(* C13: the table never holds two sheets with the same non-null            *)
(* custody_number, and a 409 response carries a sheet of the table.        *)
C13_NoDuplicateNumbers ==
  /\ \A i, j \in 1..Len(sheets) :
       i # j /\ sheets[i].custody_number # Null
         => sheets[i].custody_number # sheets[j].custody_number
  /\ xres.status = 409 => \E i \in 1..Len(sheets) : xres.rows = <<sheets[i]>>

(* C14: web_push_subscriptions never holds two rows with the same          *)
(* (user_id, endpoint).                                                    *)
C14_UniquePairs == PairsUnique(subs)

(* C15: a GET /instant-expenses/sheets that passed the middleware with     *)
(* x-user-role 'employee' returns only sheets whose user_id is the id of   *)
(* the requester, identified by x-user-id or else by body employeeId; a    *)
(* requester that resolves to no user gets an empty list.                  *)
C15_OwnSheetsOnly ==
  LET id == IF Falsy(xres.hdr) THEN xres.emp ELSE xres.hdr
      users == UsersWhereUsernameOrId(id)
  IN  /\ xres.known /\ xres.route = "list" /\ xres.reached /\ xres.status = 200
      /\ ~Falsy(xres.role) /\ toLowerCase(ToStr(xres.role)) = EmployeeStr
      => \A i \in 1..Len(xres.rows) : users # <<>> /\ xres.rows[i].user_id = users[1].id

(* C16: the step that takes a request in lets it reach its handler only if *)
(* no requester id is supplied and x-user-role is 'admin', or the id       *)
(* resolves to a user whose role is admin or whose permission is truthy;   *)
(* otherwise it answers 401 (no id), 404 (unknown user), 403 or 500 and    *)
(* touches no sheet.                                                       *)
(* The middleware has treated request q as C16 says. *)
GateHolds(q) ==
  LET noId == Falsy(q.hdr) /\ Falsy(q.emp)
      id == IF Falsy(q.hdr) THEN q.emp ELSE q.hdr
      users == IF DigitsOnly(ToStr(id)) THEN UsersWhereId(id) ELSE UsersWhereUsername(id)
      roleAdmin == ~Falsy(q.role) /\ toLowerCase(ToStr(q.role)) = AdminStr
      allowed ==
        \/ noId /\ roleAdmin
        \/ /\ ~noId
           /\ users # <<>>
           /\ \/ toLowerCase(users[1].role) = AdminStr
              \/ users[1].has_purchase_management_permission # 0
  IN  /\ q.reached => allowed
      /\ ~q.reached =>
           /\ q.status \in {401, 403, 404, 500}
           /\ q.status = 401 <=> noId
           /\ q.status = 404 => users = <<>>
           /\ q.status = 403 => users # <<>> /\ toLowerCase(users[1].role) # AdminStr
           /\ ~q.touched
           /\ q.rows = <<>>

C16_PermissionGate ==
  /\ [](xres.known => GateHolds(xres))
  /\ [][xres'.known /\ ~xres'.reached => UNCHANGED <<sheets, pending>>]_vars

C16_Witness == xres.known /\ ~xres.reached /\ xres.status = 403

(* C17: every non-null custody_number stored in instant_expense_sheets     *)
(* consists of decimal digits only.                                        *)
C17_DigitsOnly ==
  \A i \in 1..Len(sheets) :
    sheets[i].custody_number # Null => DigitsOnly(sheets[i].custody_number.s)
====
